---- MODULE Spec2Model ----
(***************************************************************************)
(* A model of the interactive core of polyscope (src/src/polyscope.cpp):   *)
(* the reentrant modal context stack (pushContext / popContext / draw),    *)
(* the structure registry (registerStructure / getStructure /              *)
(* removeStructure / updateStructureExtents) with the pick selection,      *)
(* the frame pacing at the head of mainLoopIteration and what the body of  *)
(* a loop-step does with the pointer events, the sizes and the redraw      *)
(* flag (processMouseEvents / draw).                                       *)
(*                                                                         *)
(* The program is single threaded.  Reentrancy is modelled by an explicit  *)
(* call stack: a pushContext call, the loop-step it runs and the callback  *)
(* that loop-step invokes are frames of callStack, the last element being  *)
(* the innermost call.                                                     *)
(***************************************************************************)
EXTENDS Integers, Sequences, FiniteSets, TLC

VARIABLES contextStack, contexts, currentContext, userCallback, callStack, ub,
          structures, destroyed, lengthScale, boundingBox, center,
          redrawNextFrame, pickState, maxFPS, elapsed, loopPc, loopDepth,
          bufferWidth, bufferHeight, windowWidth, windowHeight,
          dragDistSinceLastRelease, ev

ctxVars == <<contextStack, contexts, currentContext, userCallback, callStack, ub>>
regVars == <<structures, destroyed, lengthScale, boundingBox, center,
             redrawNextFrame, pickState>>
paceVars == <<maxFPS, elapsed, loopPc, loopDepth>>
viewVars == <<bufferWidth, bufferHeight, windowWidth, windowHeight>>
frameVars == <<bufferWidth, bufferHeight, windowWidth, windowHeight,
               dragDistSinceLastRelease>>
vars == <<contextStack, contexts, currentContext, userCallback, callStack, ub,
          structures, destroyed, lengthScale, boundingBox, center,
          redrawNextFrame, pickState, maxFPS, elapsed, loopPc, loopDepth,
          bufferWidth, bufferHeight, windowWidth, windowHeight,
          dragDistSinceLastRelease, ev>>

(***************************************************************************)
(* Bounds of the model.                                                    *)
(***************************************************************************)
\* largest context stack the callers build (pushes are refused beyond it)
MaxDepth == 3
\* calls one invocation of a free callback makes at most
MaxCalls == 2
\* loop-steps one pushContext call runs at most
MaxIters == 2
\* loop-steps that are under way at once, one nested in the other
MaxNest == 2
\* longest drag the model follows, in halves of the click threshold
MaxDrag == 3
\* longest time, in microseconds, the program spends away from the pacing loop
MaxElapsed == 20000
\* the size, in pixels, of the framebuffer and of the window when init() runs
FirstWidth == 2
FirstHeight == 2

Last(s) == s[Len(s)]
Front(s) == SubSeq(s, 1, Len(s) - 1)
Max(a, b) == IF a >= b THEN a ELSE b
Min(a, b) == IF a <= b THEN a ELSE b

(***************************************************************************)
(* ImGui contexts.  Context 0 is the one initializeImGUIContext creates;   *)
(* CreateContext hands out a context that is not live.  Garbage is what a  *)
(* read of contextStack.back() on an empty vector may yield.               *)
(***************************************************************************)
CtxIds == 0 .. MaxDepth
Garbage == -1
CreateContext(live) == CHOOSE c \in CtxIds : c \notin live /\ \A d \in CtxIds : d \notin live => c <= d

(***************************************************************************)
(* The callbacks handed to pushContext.  A callback is user code; the      *)
(* model knows four behaviours:                                            *)
(*   cbPop   calls popContext() at once and returns                        *)
(*   cbA     calls pushContext(cbB), then popContext(), then returns       *)
(*   cbB     returns, or calls popContext() and returns                    *)
(*   cbFree  makes up to MaxCalls calls of pushContext / popContext        *)
(* state::userCallback behaves as cbFree.                                  *)
(***************************************************************************)
Callbacks == {"cbPop", "cbA", "cbB", "cbFree"}
NoCallback == "nullptr"

CallbackMayPop(cb, pc) ==
    \/ cb = "cbPop" /\ pc = 0
    \/ cb = "cbA" /\ pc = 1
    \/ cb = "cbB" /\ pc = 0
    \/ cb = "cbFree" /\ pc < MaxCalls

CallbackMayPush(cb, pc, k) ==
    \/ cb = "cbA" /\ pc = 0 /\ k = "cbB"
    \/ cb = "cbFree" /\ pc < MaxCalls

CallbackMayReturn(cb, pc) ==
    \/ cb = "cbPop" /\ pc = 1
    \/ cb = "cbA" /\ pc = 2
    \/ cb = "cbB"
    \/ cb = "cbFree"

(***************************************************************************)
(* error(): the non-fatal error-reporting channel.  It records the report  *)
(* and returns to its caller.                                              *)
(***************************************************************************)
error(msg) == msg
NoError == "none"

(***************************************************************************)
(* Call-stack frames.                                                      *)
(***************************************************************************)
PushFrame(cb, ctx, size, prev, level) ==
    [fn |-> "pushContext", cb |-> cb, newContext |-> ctx,
     currentContextStackSize |-> size, prev |-> prev, iters |-> 0, hi |-> size,
     level |-> level]
IterFrame == [fn |-> "mainLoopIteration", pc |-> "ui", depth |-> 0, built |-> {}, invoked |-> 0]
CallbackFrame(cb, entry, size) ==
    [fn |-> "callback", cb |-> cb, pc |-> 0, entry |-> entry, depth |-> size]

AtTopLevel == callStack = <<>>
InFrame(fn) == callStack # <<>> /\ Last(callStack).fn = fn
\* the caller's frame moves past the call it is making
Advance(stack) ==
    IF stack # <<>> /\ Last(stack).fn = "callback"
    THEN Append(Front(stack), [Last(stack) EXCEPT !.pc = @ + 1])
    ELSE stack
\* the pushContext calls in progress
PushFrames(stack) == {i \in 1 .. Len(stack) : stack[i].fn = "pushContext"}
\* every pushContext call in progress sees the stack reach size n
NoteDepth(stack, n) ==
    [i \in 1 .. Len(stack) |->
        IF stack[i].fn = "pushContext" THEN [stack[i] EXCEPT !.hi = Max(@, n)] ELSE stack[i]]

(***************************************************************************)
(* popContext(), lines 355-360.  The size test reports the error; the      *)
(* pop_back() that follows is not guarded by it.  pop_back() on an empty   *)
(* vector is undefined behaviour: the run is marked ub and stops.          *)
(***************************************************************************)
popContextReports(stack) == Len(stack) = 1
\* mutant: the pop takes the entry below the top with it
popContextResult_two(stack) == SubSeq(stack, 1, Len(stack) - 2)
popContextResult(stack) == Front(stack)

popContext ==
    /\ IF Len(contextStack) = 0
       THEN /\ ub' = TRUE
            /\ contextStack' = contextStack
       ELSE /\ ub' = ub
            /\ contextStack' = popContextResult(contextStack)
    /\ ev' = [op |-> "popContext", before |-> Len(contextStack),
              after |-> Len(contextStack'),
              error |-> IF popContextReports(contextStack)
                        THEN error("Called popContext() too many times") ELSE NoError]

(***************************************************************************)
(* pushContext(callbackFunction), lines 336-345: create the context, make  *)
(* it current, push the entry and remember the size just after the push.   *)
(***************************************************************************)
pushContextEnter(cb) ==
    LET newContext == CreateContext(contexts)
        size == Len(contextStack) + 1
    IN  /\ Len(contextStack) < MaxDepth
        /\ Cardinality(PushFrames(callStack)) < MaxDepth - 1
        /\ contexts' = contexts \cup {newContext}
        /\ currentContext' = newContext
        /\ contextStack' = Append(contextStack, [context |-> newContext, callback |-> cb])
        /\ callStack' = Append(NoteDepth(Advance(callStack), size),
                               PushFrame(cb, newContext, size, currentContext,
                                         Cardinality(PushFrames(callStack))))
        /\ UNCHANGED <<userCallback, ub, ev, paceVars, frameVars>>

(***************************************************************************)
(* The spin loop of pushContext, lines 346-351.                            *)
(***************************************************************************)
\* mutant: > for >=
pushContextSpins_gt(size, currentContextStackSize) == size > currentContextStackSize
pushContextSpins(size, currentContextStackSize) == size >= currentContextStackSize

\* what SetCurrentContext(contextStack.back().context) can install
BackContext(stack) == IF stack = <<>> THEN CtxIds \cup {Garbage} ELSE {Last(stack).context}

pushContextLoop ==
    /\ ~ub
    /\ InFrame("pushContext")
    /\ UNCHANGED regVars
    /\ LET f == Last(callStack) IN
       IF pushContextSpins(Len(contextStack), f.currentContextStackSize)
       THEN \* mainLoopIteration()
            /\ f.iters < MaxIters
            /\ callStack' = Append(Append(Front(callStack), [f EXCEPT !.iters = @ + 1]), IterFrame)
            /\ UNCHANGED <<contextStack, contexts, currentContext, userCallback, ub, ev, paceVars, frameVars>>
       ELSE \* DestroyContext(newContext); SetCurrentContext(contextStack.back().context)
            /\ contexts' = contexts \ {f.newContext}
            /\ currentContext' \in BackContext(contextStack)
            /\ ub' = (ub \/ contextStack = <<>>)
            /\ callStack' = Front(callStack)
            /\ ev' = [op |-> "pushContextReturn", cb |-> f.cb, iters |-> f.iters,
                      before |-> f.currentContextStackSize - 1, after |-> Len(contextStack),
                      own |-> f.currentContextStackSize, hi |-> f.hi,
                      newContext |-> f.newContext, prev |-> f.prev,
                      level |-> f.level,
                      active |-> {callStack'[i].level : i \in PushFrames(callStack')},
                      current |-> currentContext', live |-> contexts']
            /\ UNCHANGED <<contextStack, userCallback, paceVars, frameVars>>

(***************************************************************************)
(* draw(), lines 679-701: what the loop-step builds.  With one entry on    *)
(* the stack the user callback and the three panels; otherwise the         *)
(* callback of contextStack.back().                                        *)
(***************************************************************************)
\* mutant: >= for ==
drawBuildsPanels_ge(size) == size >= 1
drawBuildsPanels(size) == size = 1
drawTarget(stack) == Len(stack)
Panels == {"buildPolyscopeGui", "buildStructureGui", "buildPickGui"}

drawUI ==
    /\ ~ub
    /\ InFrame("mainLoopIteration")
    /\ UNCHANGED regVars
    /\ Last(callStack).pc = "ui"
    /\ LET f == Last(callStack)
           size == Len(contextStack)
       IN  IF drawBuildsPanels(size)
           THEN \* buildUserGui(), lines 634-640
                LET g == [f EXCEPT !.pc = "panels", !.depth = size, !.built = @ \cup {"buildUserGui"}]
                IN  /\ callStack' = IF userCallback = NoCallback
                                    THEN Append(Front(callStack), g)
                                    ELSE Append(Append(Front(callStack), g),
                                                CallbackFrame(userCallback, 0, size))
                    /\ ub' = ub
           ELSE IF size = 0
           THEN \* contextStack.back() of an empty vector
                /\ ub' = TRUE
                /\ callStack' = callStack
           ELSE LET t == drawTarget(contextStack)
                    g == [f EXCEPT !.pc = "render", !.depth = size,
                                   !.built = @ \cup {"contextCallback"}, !.invoked = t]
                IN  /\ callStack' = Append(Append(Front(callStack), g),
                                           CallbackFrame(contextStack[t].callback, t, size))
                    /\ ub' = ub
    /\ UNCHANGED <<contextStack, contexts, currentContext, userCallback, ev, paceVars, frameVars>>

drawPanels ==
    /\ ~ub
    /\ InFrame("mainLoopIteration")
    /\ UNCHANGED regVars
    /\ Last(callStack).pc = "panels"
    /\ callStack' = Append(Front(callStack),
                           [Last(callStack) EXCEPT !.pc = "render", !.built = @ \cup Panels])
    /\ UNCHANGED <<contextStack, contexts, currentContext, userCallback, ub, ev, paceVars, frameVars>>

\* the scene pass of draw(), lines 703-707 (options::alwaysRedraw off), the
\* rest of draw() and the return of mainLoopIteration(), lines 708-716, 770
drawRender ==
    /\ ~ub
    /\ InFrame("mainLoopIteration")
    /\ Last(callStack).pc = "render"
    /\ redrawNextFrame' = FALSE
    /\ UNCHANGED <<structures, destroyed, lengthScale, boundingBox, center, pickState>>
    /\ callStack' = Front(callStack)
    /\ ev' = [op |-> "mainLoopIteration", depth |-> Last(callStack).depth,
              built |-> Last(callStack).built, invoked |-> Last(callStack).invoked]
    /\ UNCHANGED <<contextStack, contexts, currentContext, userCallback, ub, paceVars, frameVars>>

(***************************************************************************)
(* The steps of a running callback.                                        *)
(***************************************************************************)
callbackPop ==
    /\ ~ub
    /\ InFrame("callback")
    /\ UNCHANGED regVars
    /\ CallbackMayPop(Last(callStack).cb, Last(callStack).pc)
    /\ popContext
    /\ callStack' = Advance(callStack)
    /\ UNCHANGED <<contexts, currentContext, userCallback, paceVars, frameVars>>

callbackPush(k) ==
    /\ ~ub
    /\ InFrame("callback")
    /\ UNCHANGED regVars
    /\ CallbackMayPush(Last(callStack).cb, Last(callStack).pc, k)
    /\ pushContextEnter(k)

callbackReturn ==
    /\ ~ub
    /\ InFrame("callback")
    /\ UNCHANGED regVars
    /\ CallbackMayReturn(Last(callStack).cb, Last(callStack).pc)
    /\ callStack' = Front(callStack)
    /\ UNCHANGED <<contextStack, contexts, currentContext, userCallback, ub, ev, paceVars, frameVars>>

(***************************************************************************)
(* The application, outside of any loop-step: show() runs loop-steps       *)
(* (lines 777-779) and the program may call pushContext and popContext.    *)
(***************************************************************************)
appMainLoopIteration ==
    /\ ~ub
    /\ AtTopLevel
    /\ UNCHANGED regVars
    /\ callStack' = <<IterFrame>>
    /\ UNCHANGED <<contextStack, contexts, currentContext, userCallback, ub, ev, paceVars, frameVars>>

appPushContext(k) ==
    /\ ~ub
    /\ AtTopLevel
    /\ UNCHANGED regVars
    /\ pushContextEnter(k)

appPopContext ==
    /\ ~ub
    /\ AtTopLevel
    /\ UNCHANGED regVars
    /\ popContext
    /\ UNCHANGED <<contexts, currentContext, userCallback, callStack, paceVars, frameVars>>

(***************************************************************************)
(* init(), lines 314-317 and 326-333.                                      *)
(***************************************************************************)
InitContext ==
    /\ contextStack = <<[context |-> 0, callback |-> NoCallback]>>
    /\ contexts = {0}
    /\ currentContext = 0
    /\ userCallback \in {NoCallback, "cbFree"}
    /\ callStack = <<>>
    /\ ub = FALSE
    /\ ev = [op |-> "init"]

(***************************************************************************)
(* Structures.  A Structure object is made by the application with new;    *)
(* its type, name, lengthScale() and boundingBox() never change.  The      *)
(* model knows the objects 1 .. 4; 0 stands for nullptr.  Two objects      *)
(* share (PointCloud, a), the name a is used by two types, one name is     *)
(* empty, and two objects are single points: they report no scale and a    *)
(* box whose corners coincide.                                             *)
(* Lengths are kept as their squares, so that glm::length needs no root.   *)
(***************************************************************************)
Types == {"PointCloud", "SurfaceMesh"}
Names == {"", "a"}
Structs == 1 .. 4
nullptr == 0
Inf == 100

StructType(s) == IF s = 3 THEN "SurfaceMesh" ELSE "PointCloud"
StructName(s) == IF s \in {1, 2, 3} THEN "a" ELSE ""
\* lengthScale(), squared
StructLengthScale(s) == CASE s = 1 -> 4 [] s = 2 -> 0 [] s = 3 -> 9 [] OTHER -> 0
\* boundingBox()
StructBoxMin(s) ==
    CASE s = 1 -> <<0, 0, 0>> [] s = 2 -> <<-2, 0, 0>> [] s = 3 -> <<1, 1, 1>>
      [] OTHER -> <<0, 3, 0>>
StructBoxMax(s) ==
    CASE s = 1 -> <<1, 1, 1>> [] s = 2 -> <<-2, 0, 0>> [] s = 3 -> <<2, 2, 2>>
      [] OTHER -> <<0, 3, 0>>

componentwiseMin(u, v) == <<Min(u[1], v[1]), Min(u[2], v[2]), Min(u[3], v[3])>>
componentwiseMax(u, v) == <<Max(u[1], v[1]), Max(u[2], v[2]), Max(u[3], v[3])>>
isFinite(v) == \A i \in 1 .. 3 : -Inf < v[i] /\ v[i] < Inf
\* mutant: the third component is left out of the length
length2_xy(u, v) == (v[1] - u[1]) * (v[1] - u[1]) + (v[2] - u[2]) * (v[2] - u[2])
\* glm::length(v - u), squared
length2(u, v) == (v[1] - u[1]) * (v[1] - u[1]) + (v[2] - u[2]) * (v[2] - u[2])
                 + (v[3] - u[3]) * (v[3] - u[3])
\* 0.5f * (u + v), kept doubled so that it stays an integer
Midpoint2(u, v) == <<u[1] + v[1], u[2] + v[2], u[3] + v[3]>>

(***************************************************************************)
(* std::map.  A map is a function on the set of its keys.                  *)
(***************************************************************************)
EmptyMap == [k \in {} |-> nullptr]
HasKey(m, k) == k \in DOMAIN m
\* m[k] = v
MapPut(m, k, v) == [x \in DOMAIN m \cup {k} |-> IF x = k THEN v ELSE m[x]]
\* the map after evaluating m[k]: operator[] inserts a default value for a missing key
MapIndex(m, k, default) == IF HasKey(m, k) THEN m ELSE MapPut(m, k, default)
\* m.erase(k)
MapErase(m, k) == [x \in DOMAIN m \ {k} |-> m[x]]

\* the (type, name) pairs the registry holds, and the objects stored there
Entries(reg) == {<<t, n>> \in Types \X Names : HasKey(reg, t) /\ HasKey(reg[t], n)}
Stored(reg) == {reg[e[1]][e[2]] : e \in Entries(reg)}

(***************************************************************************)
(* The pick selection (pick.h): resetPick, setCurrentPickElement and       *)
(* clearPickIfStructureSelected.                                           *)
(***************************************************************************)
NoSelection == [haveSelection |-> FALSE, structure |-> nullptr]
Selected(s) == [haveSelection |-> TRUE, structure |-> s]
resetPick(pick) == NoSelection
setCurrentPickElement(pick, ind) == Selected(ind)
clearPickIfStructureSelected(pick, s) ==
    IF pick.haveSelection /\ pick.structure = s THEN NoSelection ELSE pick

(***************************************************************************)
(* The registry functions are written as functions of the program state R, *)
(* a record of the registry variables, so that one can call another.       *)
(* R.error is the last report made through error(); R.ub records that an   *)
(* object was used after its delete.                                       *)
(***************************************************************************)
requestRedraw(R) == [R EXCEPT !.redrawNextFrame = TRUE]

(***************************************************************************)
(* updateStructureExtents(), lines 977-1008.                               *)
(***************************************************************************)
RECURSIVE FoldExtents(_, _)
FoldExtents(S, acc) ==
    IF S = {} THEN acc
    ELSE LET x == CHOOSE y \in S : TRUE
         IN  FoldExtents(S \ {x},
                 [lengthScale |-> Max(acc.lengthScale, StructLengthScale(x)),
                  minBbox |-> componentwiseMin(acc.minBbox, StructBoxMin(x)),
                  maxBbox |-> componentwiseMax(acc.maxBbox, StructBoxMax(x))])

Extents(reg) ==
    LET folded == FoldExtents(Stored(reg),
                      [lengthScale |-> 0, minBbox |-> <<Inf, Inf, Inf>>,
                       maxBbox |-> <<-Inf, -Inf, -Inf>>])
        finite == isFinite(folded.minBbox) /\ isFinite(folded.maxBbox)
        minBbox == IF finite THEN folded.minBbox ELSE <<-1, -1, -1>>
        maxBbox == IF finite THEN folded.maxBbox ELSE <<1, 1, 1>>
    IN  [lengthScale |-> IF folded.lengthScale = 0 THEN length2(minBbox, maxBbox)
                         ELSE folded.lengthScale,
         boundingBox |-> <<minBbox, maxBbox>>,
         center |-> Midpoint2(minBbox, maxBbox)]

updateStructureExtents(R) ==
    LET e == Extents(R.structures)
    IN  [R EXCEPT !.lengthScale = e.lengthScale, !.boundingBox = e.boundingBox,
                  !.center = e.center,
                  !.ub = @ \/ Stored(R.structures) \cap R.destroyed # {}]

(***************************************************************************)
(* removeStructure(type, name, errorIfAbsent), lines 898-924.              *)
(***************************************************************************)
\* mutant: the selection is not told about the removal
removeInvalidatesPick_not(pick, s) == pick
removeInvalidatesPick(pick, s) == clearPickIfStructureSelected(pick, s)

removeStructure(R, type, name, errorIfAbsent) ==
    IF ~HasKey(R.structures, type)
    THEN IF errorIfAbsent THEN [R EXCEPT !.error = error("No structures of type")] ELSE R
    ELSE
    IF ~HasKey(R.structures[type], name)
    THEN IF errorIfAbsent THEN [R EXCEPT !.error = error("No structure of type and name")] ELSE R
    ELSE
    LET s == R.structures[type][name]
    IN  updateStructureExtents(
            [R EXCEPT !.pickState = removeInvalidatesPick(@, s),
                      !.structures = MapPut(@, type, MapErase(@[type], StructName(s))),
                      !.destroyed = @ \cup {s},
                      !.ub = @ \/ s \in R.destroyed])

(***************************************************************************)
(* removeStructure(name), lines 926-955: the structures named name, over   *)
(* all types; more than one is an error, none is an error.                 *)
(***************************************************************************)
Matches(reg, name) == {e \in Entries(reg) : e[2] = name}
\* mutant: a second match is not noticed, one of the matches is removed
removeFindsSecond_never(found) == FALSE
removeFindsSecond(found) == Cardinality(found) > 1

removeStructureName(R, name) ==
    LET found == Matches(R.structures, name)
    IN  IF removeFindsSecond(found)
        THEN [R EXCEPT !.error = error("Found two structures of different types with that name")]
        ELSE IF found = {}
        THEN [R EXCEPT !.error = error("No structure named")]
        ELSE LET e == CHOOSE x \in found : TRUE
                 targetStruct == R.structures[e[1]][e[2]]
             IN  requestRedraw(
                     removeStructure([R EXCEPT !.ub = @ \/ targetStruct \in R.destroyed],
                                     StructType(targetStruct), StructName(targetStruct), TRUE))

(***************************************************************************)
(* removeAllStructures(), lines 957-975: for each type, the names are      *)
(* copied out of the type's map and each is removed by type and name.      *)
(***************************************************************************)
\* mutant: no copy of the names; the walk over the map ends with the first erase
removeAllNames_first(sMap) == IF DOMAIN sMap = {} THEN {} ELSE {CHOOSE n \in DOMAIN sMap : TRUE}
removeAllNames(sMap) == DOMAIN sMap

RECURSIVE removeEach(_, _, _)
removeEach(R, type, names) ==
    IF names = {} THEN R
    ELSE LET name == CHOOSE n \in names : TRUE
         IN  removeEach(removeStructure(R, type, name, TRUE), type, names \ {name})

RECURSIVE removeEachType(_, _)
removeEachType(R, types) ==
    IF types = {} THEN R
    ELSE LET type == CHOOSE t \in types : TRUE
         IN  removeEachType(removeEach(R, type, removeAllNames(R.structures[type])),
                            types \ {type})

removeAllStructures(R) ==
    LET R1 == requestRedraw(removeEachType(R, DOMAIN R.structures))
    IN  [R1 EXCEPT !.pickState = resetPick(@)]

(***************************************************************************)
(* registerStructure(s, replaceIfPresent), lines 803-829.  The result      *)
(* carries the return value in R.ret.                                      *)
(***************************************************************************)
registerRemovesOld(R, s) == removeStructureName(R, StructName(s))
\* mutant: the name check is lost, a name in use is always replaced
registerRejects_never(inUse, replaceIfPresent) == FALSE
registerRejects(inUse, replaceIfPresent) == inUse /\ ~replaceIfPresent
\* mutant: the extents are not recomputed after the insertion
registerRefreshes_redrawOnly(R) == requestRedraw(R)
registerRefreshes(R) == requestRedraw(updateStructureExtents(R))

registerStructure(R, s, replaceIfPresent) ==
    LET R1 == [R EXCEPT !.structures = MapIndex(@, StructType(s), EmptyMap)]
        inUse == HasKey(R1.structures[StructType(s)], StructName(s))
    IN  IF registerRejects(inUse, replaceIfPresent)
        THEN [R1 EXCEPT !.error = error("a structure with that name already exists"),
                        !.ret = FALSE]
        ELSE LET R2 == IF inUse THEN registerRemovesOld(R1, s) ELSE R1
                 R3 == [R2 EXCEPT !.structures =
                                      MapPut(@, StructType(s), MapPut(@[StructType(s)], StructName(s), s)),
                                  !.ub = @ \/ s \in R2.destroyed]
             IN  [registerRefreshes(R3) EXCEPT !.ret = TRUE]

(***************************************************************************)
(* registerPointCloud, registerSurfaceMesh, registerCameraView and         *)
(* registerRaySet, lines 831-854: s is the structure the wrapper builds    *)
(* with new.  The wrapper calls registerStructure(s) and so leaves the     *)
(* second argument to the default of the declaration in polyscope.h.       *)
(***************************************************************************)
registerStructureDefault == FALSE

registerTyped(R, s, replaceIfPresent) ==
    LET R1 == registerStructure(R, s, registerStructureDefault)
    IN  IF ~R1.ret THEN [R1 EXCEPT !.destroyed = @ \cup {s}] ELSE R1

(***************************************************************************)
(* getStructure(type, name), lines 856-881.  R.got is the pointer          *)
(* returned.                                                               *)
(***************************************************************************)
\* mutant: only the empty map is refused
getStructureNeedsOne_empty(sMap) == Cardinality(DOMAIN sMap) = 0
getStructureNeedsOne(sMap) == Cardinality(DOMAIN sMap) # 1

getStructure(R, type, name) ==
    IF ~HasKey(R.structures, type)
    THEN [R EXCEPT !.error = error("No structures of type"), !.got = nullptr]
    ELSE
    LET R1 == [R EXCEPT !.structures = MapIndex(@, type, EmptyMap)]
        sMap == R1.structures[type]
    IN  IF name = ""
        THEN IF getStructureNeedsOne(sMap)
             THEN [R1 EXCEPT !.error = error("Cannot use automatic structure get"),
                             !.got = nullptr]
             ELSE [R1 EXCEPT !.got = sMap[CHOOSE k \in DOMAIN sMap : TRUE]]
        ELSE IF ~HasKey(sMap, name)
             THEN [R1 EXCEPT !.error = error("No structure of type with name"), !.got = nullptr]
             ELSE [R1 EXCEPT !.structures = MapPut(@, type, MapIndex(sMap, name, nullptr)),
                             !.got = sMap[name]]

(***************************************************************************)
(* pick::evaluatePickQuery(xPos, yPos), lines 398-428.  ind is the index   *)
(* decoded from the pixel read back: 0 for the background, or the index of *)
(* a structure that drew itself into the pick buffer.                      *)
(***************************************************************************)

\* mutant: the far edges are taken to lie inside the buffer
pickOutsideBuffer_gt(xPos, yPos) ==
    xPos < 0 \/ xPos > bufferWidth \/ yPos < 0 \/ yPos > bufferHeight
pickOutsideBuffer(xPos, yPos) ==
    xPos < 0 \/ xPos >= bufferWidth \/ yPos < 0 \/ yPos >= bufferHeight
\* mutant: the test of the decoded index is inverted
pickHitsNothing_inverted(ind) == ind # 0
pickHitsNothing(ind) == ind = 0

\* R.rendered: the structures were drawn into the pick buffer; R.readAt: the
\* pixel read back, <<>> when none was
evaluatePickQuery(R, xPos, yPos, ind) ==
    IF pickOutsideBuffer(xPos, yPos)
    THEN R
    ELSE LET R1 == [R EXCEPT !.ub = @ \/ Stored(R.structures) \cap R.destroyed # {},
                             !.rendered = TRUE,
                             !.readAt = <<xPos, bufferHeight - yPos>>]
         IN  IF pickHitsNothing(ind)
             THEN [R1 EXCEPT !.pickState = resetPick(@)]
             ELSE [R1 EXCEPT !.pickState = setCurrentPickElement(@, ind)]

(***************************************************************************)
(* The scene pass of draw(), lines 703-707, with options::alwaysRedraw off.*)
(***************************************************************************)
drawScene(R) ==
    IF R.redrawNextFrame
    THEN [R EXCEPT !.redrawNextFrame = FALSE,
                   !.ub = @ \/ Stored(R.structures) \cap R.destroyed # {}]
    ELSE R

(***************************************************************************)
(* The registry operations as actions: the application calls them one at   *)
(* a time.  ev keeps, of the last call, its arguments, its results and     *)
(* what it found and changed.                                              *)
(***************************************************************************)
State ==
    [structures |-> structures, destroyed |-> destroyed, pickState |-> pickState,
     lengthScale |-> lengthScale, boundingBox |-> boundingBox, center |-> center,
     redrawNextFrame |-> redrawNextFrame, ub |-> ub,
     error |-> NoError, ret |-> FALSE, got |-> nullptr,
     rendered |-> FALSE, readAt |-> <<>>,
     dragDist |-> dragDistSinceLastRelease, queried |-> FALSE]

Becomes(R) ==
    /\ structures' = R.structures
    /\ destroyed' = R.destroyed
    /\ pickState' = R.pickState
    /\ lengthScale' = R.lengthScale
    /\ boundingBox' = R.boundingBox
    /\ center' = R.center
    /\ redrawNextFrame' = R.redrawNextFrame
    /\ ub' = R.ub

Lookup(reg, type, name) ==
    IF HasKey(reg, type) /\ HasKey(reg[type], name) THEN reg[type][name] ELSE nullptr

ExtentsOf(R) == <<R.lengthScale, R.boundingBox, R.center>>

\* the call left the registry, the objects, the extents and the selection alone
Same(R) ==
    /\ R.structures = structures
    /\ R.destroyed = destroyed
    /\ ExtentsOf(R) = ExtentsOf(State)
    /\ R.pickState = pickState

RegisterStructure(s, replaceIfPresent) ==
    /\ ~ub
    /\ s \notin destroyed
    /\ LET R == registerStructure(State, s, replaceIfPresent)
       IN  /\ Becomes(R)
           /\ ev' = [op |-> "registerStructure", s |-> s, replaceIfPresent |-> replaceIfPresent,
                     ret |-> R.ret, error |-> R.error,
                     old |-> Lookup(structures, StructType(s), StructName(s)),
                     others |-> Cardinality(Matches(structures, StructName(s))),
                     oldPicked |-> pickState,
                     sameEntries |-> Entries(R.structures) = Entries(structures)
                                     /\ \A e \in Entries(structures) :
                                            R.structures[e[1]][e[2]] = structures[e[1]][e[2]],
                     sameExtents |-> ExtentsOf(R) = ExtentsOf(State),
                     sameRedraw |-> R.redrawNextFrame = redrawNextFrame,
                     sameDestroyed |-> R.destroyed = destroyed,
                     before |-> Stored(structures)]
    /\ UNCHANGED <<contextStack, contexts, currentContext, userCallback, callStack, paceVars, frameVars>>

GetStructure(type, name) ==
    /\ ~ub
    /\ LET R == getStructure(State, type, name)
       IN  /\ Becomes(R)
           /\ ev' = [op |-> "getStructure", type |-> type, name |-> name,
                     got |-> R.got, error |-> R.error,
                     same |-> R.structures = structures /\ R.destroyed = destroyed
                              /\ ExtentsOf(R) = ExtentsOf(State) /\ R.pickState = pickState]
    /\ UNCHANGED <<contextStack, contexts, currentContext, userCallback, callStack, paceVars, frameVars>>

RemoveStructure(type, name, errorIfAbsent) ==
    /\ ~ub
    /\ LET R == removeStructure(State, type, name, errorIfAbsent)
       IN  /\ Becomes(R)
           /\ ev' = [op |-> "removeStructure", type |-> type, name |-> name,
                     error |-> R.error, old |-> Lookup(structures, type, name),
                     oldPicked |-> pickState, before |-> Stored(structures)]
    /\ UNCHANGED <<contextStack, contexts, currentContext, userCallback, callStack, paceVars, frameVars>>

RemoveStructureName(name) ==
    /\ ~ub
    /\ LET R == removeStructureName(State, name)
       IN  /\ Becomes(R)
           /\ ev' = [op |-> "removeStructureName", name |-> name, error |-> R.error,
                     found |-> Cardinality(Matches(structures, name)),
                     removed |-> R.destroyed \ destroyed,
                     gone |-> Entries(structures) \ Entries(R.structures),
                     same |-> Same(R), before |-> Stored(structures)]
    /\ UNCHANGED <<contextStack, contexts, currentContext, userCallback, callStack, paceVars, frameVars>>

EvaluatePickQuery(xPos, yPos, ind) ==
    /\ ~ub
    /\ LET R == evaluatePickQuery(State, xPos, yPos, ind)
       IN  /\ Becomes(R)
           /\ ev' = [op |-> "evaluatePickQuery", xPos |-> xPos, yPos |-> yPos, ind |-> ind,
                     rendered |-> R.rendered, readAt |-> R.readAt,
                     oldPicked |-> pickState, same |-> Same(R)]
    /\ UNCHANGED <<contextStack, contexts, currentContext, userCallback, callStack, paceVars, frameVars>>

\* s is new: neither registered nor destroyed
RegisterTyped(s, replaceIfPresent) ==
    /\ ~ub
    /\ s \notin Stored(structures) \cup destroyed
    /\ LET R == registerTyped(State, s, replaceIfPresent)
       IN  /\ Becomes(R)
           /\ ev' = [op |-> "registerTyped", s |-> s, replaceIfPresent |-> replaceIfPresent,
                     old |-> Lookup(structures, StructType(s), StructName(s)),
                     before |-> Stored(structures)]
    /\ UNCHANGED <<contextStack, contexts, currentContext, userCallback, callStack, paceVars, frameVars>>

RemoveAllStructures ==
    /\ ~ub
    /\ LET R == removeAllStructures(State)
       IN  /\ Becomes(R)
           /\ ev' = [op |-> "removeAllStructures", before |-> Stored(structures),
                     oldPicked |-> pickState, oldRedraw |-> redrawNextFrame]
    /\ UNCHANGED <<contextStack, contexts, currentContext, userCallback, callStack, paceVars, frameVars>>

UpdateStructureExtents ==
    /\ ~ub
    /\ Becomes(updateStructureExtents(State))
    /\ ev' = [op |-> "updateStructureExtents", oldExtents |-> ExtentsOf(State)]
    /\ UNCHANGED <<contextStack, contexts, currentContext, userCallback, callStack, paceVars, frameVars>>

DrawScene ==
    /\ ~ub
    /\ Becomes(drawScene(State))
    /\ ev' = [op |-> "draw"]
    /\ UNCHANGED <<contextStack, contexts, currentContext, userCallback, callStack, paceVars, frameVars>>

(***************************************************************************)
(* init(): the registry holds an empty map per default type when           *)
(* options::initializeWithDefaultStructures is set (lines 326-331), the    *)
(* globals have their initial values (lines 38-42, 100).                   *)
(***************************************************************************)
InitRegistry ==
    /\ structures \in {EmptyMap, [t \in Types |-> EmptyMap]}
    /\ destroyed = {}
    /\ lengthScale = 1
    /\ boundingBox = <<<<0, 0, 0>>, <<0, 0, 0>>>>
    /\ center = <<0, 0, 0>>
    /\ redrawNextFrame = TRUE
    /\ pickState = NoSelection

(***************************************************************************)
(* Frame pacing, the head of mainLoopIteration(), lines 730-745.  Time is  *)
(* counted in microseconds; elapsed is what                                *)
(* duration_cast<microseconds>(now() - lastMainLoopIterTime).count()       *)
(* yields.  loopPc is the position of the innermost loop-step under way:   *)
(* pacing (lines 733-744) or body (lines 745-770); loopDepth counts the    *)
(* loop-steps under way, a loop-step being started inside another one by   *)
(* a callback that calls pushContext.                                      *)
(***************************************************************************)
\* options::maxFPS: no limit, zero, the default (line 56) and a fast display
MaxFPSValues == {-1, 0, 60, 1000}
\* what one std::this_thread::yield() may take, and what the work between
\* two readings of the clock may take
YieldTimes == {1, 5000}
WorkTimes == {5000}

\* mutant: the slack is ten percent
microsecPerLoop_90(fps) == (90 * (1000000 \div fps)) \div 100
\* lines 735-736, in long arithmetic; fps is positive
microsecPerLoop(fps) == (95 * (1000000 \div fps)) \div 100

\* mainLoopIteration() is entered, from show() or from a pushContext call
\* made inside a loop-step; 1000000 / 0 has no defined result
loopBegin ==
    /\ ~ub
    /\ loopPc = "idle" \/ (loopPc = "body" /\ loopDepth < MaxNest)
    /\ IF maxFPS = 0
       THEN /\ ub' = TRUE
            /\ UNCHANGED <<loopPc, loopDepth>>
       ELSE /\ loopPc' = "pacing"
            /\ loopDepth' = loopDepth + 1
            /\ ub' = ub
    /\ ev' = [op |-> "loopBegin"]
    /\ UNCHANGED <<contextStack, contexts, currentContext, userCallback, callStack,
                   regVars, frameVars, maxFPS, elapsed>>

\* one turn of the while loop, lines 737-741: yield, read the clock again
loopYield(d) ==
    /\ ~ub
    /\ loopPc = "pacing"
    /\ maxFPS # -1
    /\ elapsed < microsecPerLoop(maxFPS)
    /\ elapsed' = elapsed + d
    /\ ev' = [op |-> "loopYield"]
    /\ UNCHANGED <<ctxVars, regVars, frameVars, maxFPS, loopPc, loopDepth>>

\* line 745: lastMainLoopIterTime = now(), once the loop is left or skipped
loopStamp ==
    /\ ~ub
    /\ loopPc = "pacing"
    /\ maxFPS = -1 \/ ~(elapsed < microsecPerLoop(maxFPS))
    /\ elapsed' = 0
    /\ loopPc' = "body"
    /\ ev' = [op |-> "loopStamp", gap |-> elapsed, waited |-> ev.op = "loopYield",
              depth |-> loopDepth]
    /\ UNCHANGED <<ctxVars, regVars, frameVars, maxFPS, loopDepth>>

\* the loop-step returns, line 771, to the loop-step it was started in or to show()
loopEnd ==
    /\ ~ub
    /\ loopPc = "body"
    /\ loopDepth' = loopDepth - 1
    /\ loopPc' = IF loopDepth = 1 THEN "idle" ELSE "body"
    /\ ev' = [op |-> "loopEnd"]
    /\ UNCHANGED <<ctxVars, regVars, frameVars, maxFPS, elapsed>>

\* the clock moves on while the program draws or runs application code
clockAdvances(d) ==
    /\ ~ub
    /\ loopPc \in {"idle", "body"}
    /\ elapsed + d <= MaxElapsed
    /\ elapsed' = elapsed + d
    /\ ev' = [op |-> "clockAdvances"]
    /\ UNCHANGED <<ctxVars, regVars, frameVars, maxFPS, loopPc, loopDepth>>

\* init() reads the sizes of the window and of the framebuffer (lines 311-312);
\* dragDistSinceLastRelease starts at 0 (line 433)
InitFrame ==
    /\ bufferWidth = FirstWidth
    /\ bufferHeight = FirstHeight
    /\ windowWidth = FirstWidth
    /\ windowHeight = FirstHeight
    /\ dragDistSinceLastRelease = 0

\* maxFPS has its default (line 56), lastMainLoopIterTime is now() (line 657)
InitPacing ==
    /\ maxFPS = 60
    /\ elapsed = 0
    /\ loopPc = "idle"
    /\ loopDepth = 0

Init == InitContext /\ InitRegistry /\ structures = [t \in Types |-> EmptyMap] /\ InitPacing
        /\ InitFrame
InitApp == InitContext /\ InitRegistry /\ userCallback = NoCallback /\ InitPacing
           /\ InitFrame
\* the application has set options::maxFPS before show()
InitLoop ==
    /\ InitContext /\ userCallback = NoCallback
    /\ InitRegistry /\ structures = [t \in Types |-> EmptyMap]
    /\ maxFPS \in MaxFPSValues
    /\ elapsed = 0
    /\ loopPc = "idle"
    /\ loopDepth = 0
    /\ InitFrame

(***************************************************************************)
(* The body of mainLoopIteration(), lines 747-770: the size check, the     *)
(* pointer events, the GUI build and the scene pass of draw().  loopPc is  *)
(* events, build or scene while a loop-step is under way.                  *)
(*                                                                         *)
(* Drag distances are counted in halves of the .01 of line 521.  What      *)
(* ImGui reports in one loop-step is a record io: pressed (a button other  *)
(* than the left one is down), dragging (IsMouseDragging(0), which needs   *)
(* the left button down), released (the left button went up), scroll (a    *)
(* wheel delta is not 0), wantCaptureMouse, ctrlNoShift (io.KeyCtrl &&     *)
(* !io.KeyShift), delta (|dragDelta.x| + |dragDelta.y|), pos (the pointer, *)
(* in buffer pixels) and alwaysEvaluatePick, the value of the option.      *)
(***************************************************************************)
ClickThreshold == 2

MouseInputs ==
    {io \in [pressed : BOOLEAN, dragging : BOOLEAN, released : BOOLEAN, scroll : BOOLEAN,
             wantCaptureMouse : BOOLEAN, ctrlNoShift : BOOLEAN, delta : 0 .. ClickThreshold,
             pos : {<<0, 0>>, <<-1, 0>>}, alwaysEvaluatePick : BOOLEAN] :
        /\ io.released => ~io.dragging
        /\ io.delta > 0 => io.dragging}

\* ImGui::IsAnyMouseDown()
IsAnyMouseDown(io) == io.pressed \/ io.dragging

\* mutant: the window size is left out of the comparison
sizeChanged_bufferOnly(size) == size[1] # bufferWidth \/ size[2] # bufferHeight
\* lines 752-753; size is what glfwGetFramebufferSize and glfwGetWindowSize give
sizeChanged(size) ==
    size[1] # bufferWidth \/ size[2] # bufferHeight
        \/ size[4] # windowHeight \/ size[3] # windowWidth

\* line 521
isClick(dragDist) == dragDist < ClickThreshold

\* processMouseEvents(), lines 435-533; ind is the index the pick buffer
\* gives should a pixel be read
processMouseEvents(R, io, ind) ==
    LET R1 == IF IsAnyMouseDown(io) THEN requestRedraw(R) ELSE R
        R2 == IF ~io.wantCaptureMouse /\ io.scroll THEN requestRedraw(R1) ELSE R1
        R3 == IF io.alwaysEvaluatePick THEN [R2 EXCEPT !.pickState = resetPick(@)] ELSE R2
        drags == io.dragging /\ ~io.ctrlNoShift
        R4 == IF io.wantCaptureMouse THEN R3
              ELSE IF drags
                   THEN [requestRedraw(R3) EXCEPT !.dragDist = @ + io.delta]
                   ELSE [R3 EXCEPT !.dragDist = 0]
        shouldEvaluatePick ==
            \/ io.alwaysEvaluatePick
            \/ ~io.wantCaptureMouse /\ ~drags /\ isClick(R3.dragDist)
    IN  IF shouldEvaluatePick
        THEN [evaluatePickQuery(R4, io.pos[1], io.pos[2], ind) EXCEPT !.queried = TRUE]
        ELSE R4

\* mutant: the override is ignored
sceneRedraws_pendingOnly(pending, alwaysRedraw) == pending
\* line 704
sceneRedraws(pending, alwaysRedraw) == pending \/ alwaysRedraw

\* the sizes the window system may report: framebuffer width and height,
\* window width and height
Sizes ==
    {<<FirstWidth, FirstHeight, FirstWidth, FirstHeight>>,
     <<FirstWidth + 1, FirstHeight, FirstWidth + 1, FirstHeight>>,
     <<FirstWidth, FirstHeight, FirstWidth, FirstHeight + 1>>}

\* mainLoopIteration() is entered, from show() or from a pushContext call
\* made while the GUI is built, and checks the sizes, lines 747-761
frameResize(size) ==
    /\ ~ub
    /\ loopPc = "idle" \/ (loopPc = "build" /\ loopDepth < MaxNest)
    /\ loopPc' = "events"
    /\ loopDepth' = loopDepth + 1
    /\ IF sizeChanged(size)
       THEN /\ redrawNextFrame' = TRUE
            /\ bufferWidth' = size[1]
            /\ bufferHeight' = size[2]
            /\ windowWidth' = size[3]
            /\ windowHeight' = size[4]
       ELSE UNCHANGED <<redrawNextFrame, viewVars>>
    /\ ev' = [op |-> "resize", size |-> size,
              cached |-> <<bufferWidth, bufferHeight, windowWidth, windowHeight>>,
              pending |-> redrawNextFrame]
    /\ UNCHANGED <<ctxVars, structures, destroyed, lengthScale, boundingBox, center,
                   pickState, maxFPS, elapsed, dragDistSinceLastRelease>>

\* lines 764-766
frameEvents(io, ind) ==
    /\ ~ub
    /\ loopPc = "events"
    /\ dragDistSinceLastRelease + io.delta <= MaxDrag
    /\ LET R == processMouseEvents(State, io, ind)
       IN  /\ Becomes(R)
           /\ dragDistSinceLastRelease' = R.dragDist
           /\ ev' = [op |-> "events", io |-> io, queried |-> R.queried,
                     dragBefore |-> dragDistSinceLastRelease,
                     pending |-> redrawNextFrame,
                     resized |-> ev.op = "resize" /\ ev.size # ev.cached]
    /\ loopPc' = "build"
    /\ UNCHANGED <<contextStack, contexts, currentContext, userCallback, callStack,
                   maxFPS, elapsed, loopDepth, viewVars>>

\* draw(), lines 679-701: the GUI is built; the callbacks it runs may call
\* requestRedraw()
frameBuild(requests) ==
    /\ ~ub
    /\ loopPc = "build"
    /\ loopPc' = "scene"
    /\ redrawNextFrame' = (redrawNextFrame \/ requests)
    /\ ev' = [op |-> "build", requests |-> requests]
    /\ UNCHANGED <<ctxVars, structures, destroyed, lengthScale, boundingBox, center,
                   pickState, maxFPS, elapsed, loopDepth, frameVars>>

\* draw(), lines 703-716, and the return of the loop-step: to the callback
\* that started it, or to show()
frameScene(alwaysRedraw) ==
    /\ ~ub
    /\ loopPc = "scene"
    /\ redrawNextFrame' = IF sceneRedraws(redrawNextFrame, alwaysRedraw) THEN FALSE
                          ELSE redrawNextFrame
    /\ loopDepth' = loopDepth - 1
    /\ loopPc' = IF loopDepth = 1 THEN "idle" ELSE "build"
    /\ ev' = [op |-> "scene", drawStructures |-> sceneRedraws(redrawNextFrame, alwaysRedraw),
              pending |-> redrawNextFrame, alwaysRedraw |-> alwaysRedraw,
              depth |-> loopDepth]
    /\ UNCHANGED <<ctxVars, structures, destroyed, lengthScale, boundingBox, center,
                   pickState, maxFPS, elapsed, frameVars>>

InitShow ==
    /\ InitContext /\ userCallback = NoCallback
    /\ InitRegistry /\ structures = [t \in Types |-> EmptyMap]
    /\ InitPacing
    /\ InitFrame

(***************************************************************************)
(* Spec: the context stack and the loop-steps that run inside it.          *)
(***************************************************************************)
Next ==
    \/ appMainLoopIteration
    \/ \E k \in Callbacks : appPushContext(k)
    \/ appPopContext
    \/ pushContextLoop
    \/ drawUI
    \/ drawPanels
    \/ drawRender
    \/ callbackPop
    \/ \E k \in Callbacks : callbackPush(k)
    \/ callbackReturn

Spec == Init /\ [][Next]_vars

(***************************************************************************)
(* SpecRegistry: the registry operations called by the application.        *)
(***************************************************************************)
\* two pointer positions inside the buffer and one beyond each of its edges
Queries ==
    {<<0, 0>>, <<0, bufferHeight - 1>>, <<-1, 0>>, <<bufferWidth, 0>>, <<0, -1>>,
     <<0, bufferHeight>>}

NextRegistry ==
    \/ \E s \in Structs, r \in BOOLEAN : RegisterStructure(s, r)
    \/ \E s \in Structs, r \in BOOLEAN : RegisterTyped(s, r)
    \/ \E t \in Types, n \in Names : GetStructure(t, n)
    \/ \E t \in Types, n \in Names, e \in BOOLEAN : RemoveStructure(t, n, e)
    \/ \E n \in Names : RemoveStructureName(n)
    \/ \E q \in Queries, i \in {0} \cup (Stored(structures) \ destroyed) :
           EvaluatePickQuery(q[1], q[2], i)
    \/ RemoveAllStructures
    \/ UpdateStructureExtents
    \/ DrawScene

SpecRegistry == InitApp /\ [][NextRegistry]_vars

(***************************************************************************)
(* SpecPacing: loop-steps against the clock.                               *)
(***************************************************************************)
NextPacing ==
    \/ loopBegin
    \/ \E d \in YieldTimes : loopYield(d)
    \/ loopStamp
    \/ loopEnd
    \/ \E d \in WorkTimes : clockAdvances(d)

SpecPacing == InitLoop /\ [][NextPacing]_vars

(***************************************************************************)
(* SpecFrame: what one loop-step after the other does with the pointer,    *)
(* the sizes and the redraw flag.                                          *)
(***************************************************************************)
NextFrame ==
    \/ \E size \in Sizes : frameResize(size)
    \/ \E io \in MouseInputs : frameEvents(io, 0)
    \/ \E requests \in BOOLEAN : frameBuild(requests)
    \/ \E alwaysRedraw \in BOOLEAN : frameScene(alwaysRedraw)

SpecFrame == InitShow /\ [][NextFrame]_vars

(***************************************************************************)
(*                     Properties of the context stack                     *)
(***************************************************************************)

\* C1: popContext() called when the stack holds only the root entry reports
\* an error and leaves the stack holding exactly the root entry.
C1_PopAtRootIsNoOp ==
    ev.op = "popContext" /\ ev.before = 1 => ev.error # NoError /\ ev.after = 1

\* C2: the context stack always has at least one entry and its bottom entry
\* has no callback.
C2_StackNeverEmpty ==
    Len(contextStack) >= 1 /\ contextStack[1].callback = NoCallback

\* C3: a pushContext(cb) call whose cb calls popContext() at once returns
\* after exactly one loop-step, with the stack as large as before the call.
C3_PopAtOnceTakesOneStep ==
    /\ ev.op = "pushContextReturn" /\ ev.cb = "cbPop"
           => ev.iters = 1 /\ ev.after = ev.before
    /\ InFrame("pushContext") /\ Last(callStack).cb = "cbPop" /\ Last(callStack).iters >= 1
           => Len(contextStack) < Last(callStack).currentContextStackSize

\* The nesting of C4: frame i of the call stack is an invocation of cbB, in
\* the pushContext(cbB) call made by an invocation of cbA, itself in a
\* pushContext(cbA) call made with one entry on the stack.
NestedB(i) ==
    /\ i >= 6
    /\ callStack[i].fn = "callback" /\ callStack[i].cb = "cbB"
    /\ callStack[i - 2].fn = "pushContext" /\ callStack[i - 2].cb = "cbB"
    /\ callStack[i - 3].fn = "callback" /\ callStack[i - 3].cb = "cbA"
    /\ callStack[i - 5].fn = "pushContext" /\ callStack[i - 5].cb = "cbA"
    /\ callStack[i - 5].currentContextStackSize = 2

NestedUnwinds ==
    ev.op = "pushContextReturn" /\ ev.cb = "cbA" /\ ev.before = 1
        => ev.hi = 3 /\ ev.after = 1

\* C4 as stated: pushContext(A) from the root, A calling pushContext(B) and
\* then popContext(): the depth reaches 3, is 1 again after both calls, and
\* B's callback is invoked only at depth exactly 2.
C4_NestedAsStated ==
    /\ NestedUnwinds
    /\ \A i \in 1 .. Len(callStack) : NestedB(i) => callStack[i].depth = 2

\* C4 as amended: the same, B's callback being invoked only at depth exactly 3.
C4_Nested ==
    /\ NestedUnwinds
    /\ \A i \in 1 .. Len(callStack) : NestedB(i) => callStack[i].depth = 3

C4_Witness ==
    ev.op = "pushContextReturn" /\ ev.cb = "cbA" /\ ev.before = 1 /\ ev.hi = 3 /\ ev.after = 1

\* C5: a pushContext call returns only once the stack is smaller than it was
\* just after the call's own push, and when it returns every pushContext
\* call still in progress was made before it (the inner call returns first).
C5_ReturnsBelowOwnDepth ==
    ev.op = "pushContextReturn"
        => /\ ev.after < ev.own
           /\ \A l \in ev.active : l < ev.level

C5_Witness ==
    ev.op = "pushContextReturn" /\ ev.active # {} /\ ev.iters >= 2 /\ ev.after < ev.own - 1

\* C6: a loop-step at depth greater than 1 builds nothing but the callback of
\* the top entry; a loop-step at depth 1 builds the user callback and the
\* three panels and invokes no entry of the stack.
BuildsAsDepthSays(f, done) ==
    /\ f.depth > 1 => f.built = {"contextCallback"} /\ f.invoked = f.depth
    /\ f.depth = 1 => /\ f.invoked = 0
                      /\ f.built \subseteq {"buildUserGui"} \cup Panels
                      /\ done => f.built = {"buildUserGui"} \cup Panels

C6_DrawBuildsTopOnly ==
    /\ ev.op = "mainLoopIteration" => BuildsAsDepthSays(ev, TRUE)
    /\ \A i \in 1 .. Len(callStack) :
           /\ callStack[i].fn = "mainLoopIteration" /\ callStack[i].pc # "ui"
                  => BuildsAsDepthSays(callStack[i], callStack[i].pc = "render")
           /\ callStack[i].fn = "callback"
                  => \/ callStack[i].entry = 0 /\ callStack[i].depth = 1
                     \/ callStack[i].entry = callStack[i].depth /\ callStack[i].depth > 1

C6_Witness ==
    ev.op = "mainLoopIteration" /\ ev.depth = 3 /\ ev.built = {"contextCallback"}

\* C7: when a pushContext call returns, the context it created is destroyed
\* and the context that was current before the call is current again,
\* whatever the callbacks pushed and popped.  Stated for the returns that
\* find an entry left on the stack.
C7_PreviousContextRestored ==
    ev.op = "pushContextReturn" /\ ev.after >= 1
        => ev.newContext \notin ev.live /\ ev.current = ev.prev

(***************************************************************************)
(*                       Properties of the registry                        *)
(***************************************************************************)
Instances(reg, s) == {e \in Entries(reg) : reg[e[1]][e[2]] = s}

\* C8: registerStructure(s, false) on a (type, name) in use returns false and
\* changes nothing: the entry still holds the original structure, once, and
\* the extents and the redraw flag are as before.
C8_RegisterRejected ==
    ev.op = "registerStructure" /\ ~ev.replaceIfPresent /\ ev.old # nullptr
        => /\ ev.ret = FALSE
           /\ ev.sameEntries
           /\ Lookup(structures, StructType(ev.s), StructName(ev.s)) = ev.old
           /\ Cardinality(Instances(structures, ev.old)) = 1
           /\ ev.sameDestroyed
           /\ ev.sameExtents
           /\ ev.sameRedraw

C8_Witness ==
    /\ ev.op = "registerStructure" /\ ~ev.replaceIfPresent
    /\ ev.old # nullptr /\ ev.old # ev.s
    /\ ~redrawNextFrame
    /\ ev.ret = FALSE

\* C9: registerStructure(s, true) on a (type, name) in use, held by another
\* structure, removes the old entry (the old structure is destroyed, a
\* selection on it is dropped), installs s, returns true, recomputes the
\* extents and requests a redraw, whatever else the registry holds.
C9_RegisterReplaces ==
    ev.op = "registerStructure" /\ ev.replaceIfPresent /\ ev.old # nullptr /\ ev.old # ev.s
        => /\ ev.ret = TRUE
           /\ ev.old \in destroyed
           /\ (ev.oldPicked = Selected(ev.old) => pickState = NoSelection)
           /\ Lookup(structures, StructType(ev.s), StructName(ev.s)) = ev.s
           /\ <<lengthScale, boundingBox, center>> = ExtentsOf(Extents(structures))
           /\ redrawNextFrame

\* C10: getStructure(type, name) with a name returns the structure stored
\* under (type, name), or reports an error and returns nullptr; with the
\* empty name it returns the only structure of the type when there is
\* exactly one, and reports an error otherwise; it changes nothing.
OfType(reg, type) == {e \in Entries(reg) : e[1] = type}

C10_GetStructure ==
    ev.op = "getStructure"
        => /\ ev.same
           /\ LET stored == Lookup(structures, ev.type, ev.name)
                  all == OfType(structures, ev.type)
                  found == IF ev.name # "" THEN stored # nullptr ELSE Cardinality(all) = 1
              IN  IF found
                  THEN /\ ev.error = NoError
                       /\ ev.got # nullptr
                       /\ ev.name # "" => ev.got = stored
                       /\ ev.name = "" => \A e \in all : ev.got = structures[e[1]][e[2]]
                  ELSE ev.error # NoError /\ ev.got = nullptr

C10_Witness ==
    ev.op = "getStructure" /\ ev.name = "" /\ ev.got # nullptr /\ StructName(ev.got) # ""

\* C11: removeStructure(name) removes a structure only when exactly one
\* structure of that name exists over all types, and then removes that one;
\* with no such structure or with more than one it reports an error and
\* leaves the registry, the extents and the selection as they were.
C11_RemoveByName ==
    ev.op = "removeStructureName"
        => IF ev.found = 1
           THEN /\ ev.error = NoError
                /\ Cardinality(ev.removed) = 1
                /\ \A s \in ev.removed : StructName(s) = ev.name /\ s \in ev.before
                /\ Cardinality(ev.gone) = 1
                /\ \A e \in ev.gone : e[2] = ev.name
           ELSE /\ ev.error # NoError
                /\ ev.same
                /\ ev.removed = {}

C11_Witness ==
    ev.op = "removeStructureName" /\ ev.found = 2 /\ pickState.haveSelection

\* C12: after removeAllStructures() no structure is registered under any
\* type, every structure that was registered is destroyed, nothing is
\* selected and a redraw is pending.
C12_RemoveAll ==
    ev.op = "removeAllStructures"
        => /\ Entries(structures) = {}
           /\ \A t \in DOMAIN structures : DOMAIN structures[t] = {}
           /\ ev.before \subseteq destroyed
           /\ pickState = NoSelection
           /\ redrawNextFrame

C12_Witness ==
    /\ ev.op = "removeAllStructures"
    /\ Cardinality(ev.before) >= 3
    /\ ev.oldPicked.haveSelection
    /\ ~ev.oldRedraw

\* C13: removeStructure(type, name) of the selected structure leaves nothing
\* selected; of any other structure, or of none, it leaves the selection as
\* it was.
C13_RemovePicked ==
    ev.op = "removeStructure"
        => IF ev.old # nullptr /\ ev.oldPicked.haveSelection /\ ev.oldPicked.structure = ev.old
           THEN pickState = NoSelection
           ELSE pickState = ev.oldPicked

C13_Witness ==
    ev.op = "removeStructure" /\ ev.old # nullptr /\ ev.oldPicked = Selected(ev.old)

\* C14: in every reachable state a selected structure is one the registry
\* stores.
C14_SelectionIsStored ==
    pickState.haveSelection => pickState.structure \in Stored(structures)

\* C15: after a registerStructure, removeStructure or removeAllStructures
\* call that changed which structures are registered, the extents are the
\* ones updateStructureExtents derives from the registry as it then is.
C15_ExtentsFresh ==
    (ev.op \in {"registerStructure", "removeStructure", "removeStructureName",
                "removeAllStructures"}
     /\ Stored(structures) # ev.before)
        => <<lengthScale, boundingBox, center>> = ExtentsOf(Extents(structures))

C15_Witness ==
    /\ ev.op = "registerStructure"
    /\ Cardinality(Stored(structures)) >= 2
    /\ Stored(structures) # ev.before
    /\ ~ev.sameExtents

\* C16: updateStructureExtents() sets lengthScale to the largest scale a
\* structure reports and the box to the component-wise least and greatest
\* corners; a box that is not finite becomes (-1,-1,-1)..(1,1,1), a scale of
\* zero becomes the diagonal of the final box, center is the midpoint of the
\* final box.  The empty registry gives the box (-1,-1,-1)..(1,1,1), center
\* (0,0,0) and a diagonal whose square is 12.
Least(X) == CHOOSE m \in X : \A x \in X : m <= x
Greatest(X) == CHOOSE m \in X : \A x \in X : x <= m

C16_Extents ==
    ev.op = "updateStructureExtents"
        => LET S == Stored(structures)
               scale == Greatest({0} \cup {StructLengthScale(s) : s \in S})
               lo == [i \in 1 .. 3 |-> Least({Inf} \cup {StructBoxMin(s)[i] : s \in S})]
               hi == [i \in 1 .. 3 |-> Greatest({-Inf} \cup {StructBoxMax(s)[i] : s \in S})]
               finite == \A i \in 1 .. 3 : lo[i] > -Inf /\ lo[i] < Inf /\ hi[i] > -Inf /\ hi[i] < Inf
               bmin == boundingBox[1]
               bmax == boundingBox[2]
               diagonal == (bmax[1] - bmin[1]) * (bmax[1] - bmin[1])
                           + (bmax[2] - bmin[2]) * (bmax[2] - bmin[2])
                           + (bmax[3] - bmin[3]) * (bmax[3] - bmin[3])
           IN  /\ finite => \A i \in 1 .. 3 : bmin[i] = lo[i] /\ bmax[i] = hi[i]
               /\ ~finite => bmin = <<-1, -1, -1>> /\ bmax = <<1, 1, 1>>
               /\ lengthScale = IF scale = 0 THEN diagonal ELSE scale
               /\ \A i \in 1 .. 3 : center[i] = bmin[i] + bmax[i]
               /\ S = {} => /\ boundingBox = <<<<-1, -1, -1>>, <<1, 1, 1>>>>
                            /\ center = <<0, 0, 0>>
                            /\ lengthScale = 12

C16_Witness ==
    /\ ev.op = "updateStructureExtents"
    /\ Stored(structures) = {}
    /\ ev.oldExtents # <<lengthScale, boundingBox, center>>

\* C17: after updateStructureExtents() the lengthScale is strictly positive
\* and the bounding box is finite, whatever the registry holds.
C17_ScalePositive ==
    ev.op = "updateStructureExtents"
        => /\ lengthScale > 0
           /\ \A i \in 1 .. 3 : /\ -Inf < boundingBox[1][i] /\ boundingBox[1][i] < Inf
                                /\ -Inf < boundingBox[2][i] /\ boundingBox[2][i] < Inf

\* C18: a pick query inside the buffer whose pixel decodes to index 0 leaves
\* nothing selected, whatever was selected before; a pixel that decodes to
\* another index leaves that index selected.
C18_PickDecode ==
    (ev.op = "evaluatePickQuery"
     /\ 0 <= ev.xPos /\ ev.xPos < bufferWidth /\ 0 <= ev.yPos /\ ev.yPos < bufferHeight)
        => IF ev.ind = 0
           THEN pickState = [haveSelection |-> FALSE, structure |-> nullptr]
           ELSE pickState = [haveSelection |-> TRUE, structure |-> ev.ind]

C18_Witness ==
    /\ ev.op = "evaluatePickQuery"
    /\ ev.rendered
    /\ ev.ind = 0
    /\ ev.oldPicked.haveSelection

\* C19: evaluatePickQuery(x, y) with x or y outside the buffer renders
\* nothing, reads no pixel back and leaves the selection, and everything
\* else, as it was.
C19_OutsideIsNoOp ==
    (ev.op = "evaluatePickQuery"
     /\ (ev.xPos < 0 \/ ev.xPos >= bufferWidth \/ ev.yPos < 0 \/ ev.yPos >= bufferHeight))
        => /\ ~ev.rendered
           /\ ev.readAt = <<>>
           /\ pickState = ev.oldPicked
           /\ ev.same

C19_Witness ==
    /\ ev.op = "evaluatePickQuery"
    /\ ev.xPos = bufferWidth
    /\ ev.ind = 0
    /\ ev.oldPicked.haveSelection
    /\ pickState.haveSelection

\* C20 as stated: with maxFPS other than -1, lastMainLoopIterTime is set at
\* least 0.95 * (1000000 / maxFPS) microseconds after it was last set, in
\* nested loop-steps too; with maxFPS = -1 a loop-step does not wait.
\* (gap >= 0.95 * 1000000 / maxFPS, multiplied out by 20 * maxFPS.)
C20_PacingAsStated ==
    ev.op = "loopStamp"
        => IF maxFPS = -1
           THEN ~ev.waited
           ELSE 20 * maxFPS * ev.gap >= 19 * 1000000

\* C20 as amended: the same with the bound the integer arithmetic yields,
\* 1000000 / maxFPS cut to a whole number, times 95, over 100, cut again.
C20_Pacing ==
    ev.op = "loopStamp"
        => IF maxFPS = -1
           THEN ~ev.waited
           ELSE /\ maxFPS > 0
                /\ ev.gap >= (95 * (1000000 \div maxFPS)) \div 100

C20_Witness ==
    /\ ev.op = "loopStamp"
    /\ maxFPS = 60
    /\ ev.waited
    /\ ev.gap = 15832
    /\ ev.depth = 2

\* C21: with alwaysEvaluatePick off, processMouseEvents() issues a pick
\* query only in a loop-step where the left button was released and the
\* drag accumulated since the release before is below the threshold.
C21_PickOnlyOnClick ==
    (ev.op = "events" /\ ~ev.io.alwaysEvaluatePick /\ ev.queried)
        => ev.io.released /\ ~ev.io.dragging /\ ev.dragBefore < ClickThreshold

\* C22: the scene pass calls drawStructures exactly when redrawNextFrame is
\* set or alwaysRedraw is on, and leaves redrawNextFrame false when it did;
\* no other step turns redrawNextFrame from true to false.
C22_RedrawNotDropped ==
    [][/\ ev'.op = "scene"
            => /\ ev'.drawStructures <=> (redrawNextFrame \/ ev'.alwaysRedraw)
               /\ ev'.drawStructures => ~redrawNextFrame'
       /\ redrawNextFrame /\ ~redrawNextFrame'
            => ev'.op = "scene" /\ ev'.drawStructures]_vars

C22_Witness ==
    /\ ev.op = "scene"
    /\ ev.depth = 2
    /\ ev.pending
    /\ ~ev.alwaysRedraw
    /\ ev.drawStructures

\* C23 as stated: after the pointer events of a loop-step in which a button
\* is down, a wheel delta is not 0, a drag is in progress or the sizes have
\* changed, redrawNextFrame is set; a size change also stores the new sizes.
C23_RedrawRequestedAsStated ==
    /\ ev.op = "events"
           => ((IsAnyMouseDown(ev.io) \/ ev.io.scroll \/ ev.io.dragging \/ ev.resized)
                   => redrawNextFrame)
    /\ (ev.op = "resize" /\ ev.size # ev.cached)
           => /\ redrawNextFrame
              /\ <<bufferWidth, bufferHeight, windowWidth, windowHeight>> = ev.size

\* C23 as amended: the same, a wheel delta counting only when the GUI does
\* not capture the pointer.
C23_RedrawRequested ==
    /\ ev.op = "events"
           => ((\/ IsAnyMouseDown(ev.io)
                \/ (ev.io.scroll /\ ~ev.io.wantCaptureMouse)
                \/ ev.io.dragging
                \/ ev.resized)
                   => redrawNextFrame)
    /\ (ev.op = "resize" /\ ev.size # ev.cached)
           => /\ redrawNextFrame
              /\ <<bufferWidth, bufferHeight, windowWidth, windowHeight>> = ev.size

C23_Witness ==
    /\ ev.op = "events"
    /\ ~ev.pending
    /\ ev.io.scroll /\ ~ev.io.wantCaptureMouse
    /\ ~IsAnyMouseDown(ev.io)
    /\ redrawNextFrame

\* C24: no structure the registry stores has been destroyed, and a call
\* drops no structure the registry stored without destroying it.
C24_Ownership ==
    /\ Stored(structures) \cap destroyed = {}
    /\ ev.op \in {"registerStructure", "registerTyped", "removeStructure",
                  "removeStructureName", "removeAllStructures"}
           => ev.before \subseteq Stored(structures) \cup destroyed

\* C25: the pixel a pick query reads back lies inside the pick buffer.
C25_ReadInsideBuffer ==
    (ev.op = "evaluatePickQuery" /\ ev.rendered)
        => /\ 0 <= ev.readAt[1] /\ ev.readAt[1] < bufferWidth
           /\ 0 <= ev.readAt[2] /\ ev.readAt[2] < bufferHeight

\* C26: a typed registration wrapper called on a name in use for the type
\* leaves the new structure under the name when replaceIfPresent is true,
\* and keeps the old one and destroys the new one when it is false.
C26_WrapperHonoursReplace ==
    (ev.op = "registerTyped" /\ ev.old # nullptr)
        => LET now == Lookup(structures, StructType(ev.s), StructName(ev.s))
           IN  IF ev.replaceIfPresent
               THEN now = ev.s /\ ev.s \notin destroyed
               ELSE now = ev.old /\ ev.old \notin destroyed /\ ev.s \in destroyed

\* C27: a loop-step run by a pushContext call while the entry that call
\* pushed is the top of the stack invokes the callback of that entry; a
\* pushContext call returns only once its entry is off the stack, and does
\* return once its callback has popped the entry.
C27_ModalSession ==
    /\ (ev.op = "mainLoopIteration" /\ InFrame("pushContext")
        /\ ev.depth = Last(callStack).currentContextStackSize)
           => ev.invoked = ev.depth /\ ev.built = {"contextCallback"}
    /\ ev.op = "pushContextReturn" => ev.after < ev.own

====
